---- MODULE Spec2Model ----
(***************************************************************************)
(* A model of hearts_gym/utils/logic.py: the partition filters, the        *)
(* combinatorial win probability, the trick outcome estimator, the         *)
(* single-round ownership inference and the decision-context snapshot.     *)
(*                                                                         *)
(* The functions are pure.  A behaviour is one call: Init draws the        *)
(* operation and its arguments, the operation's action applies it and      *)
(* stores what it returned (or the exception it raised) in `result`.       *)
(*                                                                         *)
(* Floating point values are modelled as exact rationals <<num, den>>      *)
(* with den > 0, compared by cross multiplication.                         *)
(***************************************************************************)
EXTENDS Integers, Sequences, FiniteSets, TLC

VARIABLES pc, op, args, result

vars == <<pc, op, args, result>>

(***************************************************************************)
(* Bounds of the model.                                                    *)
(***************************************************************************)
\* The suits of the reduced deck (the game has four).  The functions read a
\* suit only to compare it with one reference suit, and get_penalty to tell
\* its penalty: suit 0 holds the queen of spades, suit 1 is hearts.
SUITS == {0, 1}
NUM_SUITS == Cardinality(SUITS)
\* Ranks of the reduced deck (Card.NUM_RANKS is 13 in the game).
NUM_RANKS == 3
\* Longest card sequence handed to the partition filters.
MaxLen == 3
\* Largest n_others_higher / n_others_lower handed to p_gets_trick directly.
MaxCount == 4
\* Largest n_incoming handed to p_gets_trick directly.
MaxIncoming == 3
\* Most cards held by the other players in a call of gets_trick.
MaxOthers == 5
\* Most cards placed in hand, trick and played together in a call of from_trick.
MaxSeen == 3
\* Most cards on the hand of a decision-context snapshot.
MaxHand == 1

\* A trick holds four cards: the table holds at most three before we play.
MaxTable == 3

(***************************************************************************)
(* Rationals.                                                              *)
(***************************************************************************)
Rat(n, d) == <<n, d>>

RatEq(a, b) == a[1] * b[2] = b[1] * a[2]

RatLe(a, b) == a[1] * b[2] <= b[1] * a[2]

RECURSIVE IntPow(_, _)
IntPow(b, n) ==
    IF n = 0 THEN 1 ELSE b * IntPow(b, n - 1)

\* a * n, where a ** n is meant.
RatTimes(a, n) == Rat(a[1] * n, a[2])

\* a ** n
RatPow(a, n) == Rat(IntPow(a[1], n), IntPow(a[2], n))

\* a - b
RatSub(a, b) == Rat(a[1] * b[2] - b[1] * a[2], a[2] * b[2])

\* a + b
RatAdd(a, b) == Rat(a[1] * b[2] + b[1] * a[2], a[2] * b[2])

(***************************************************************************)
(* Certainty, cards.                                                       *)
(***************************************************************************)
NEVER == Rat(0, 1)

ALWAYS == Rat(1, 1)

Card(s, r) == [suit |-> s, rank |-> r]

\* The deck, suit-major, as the tuple CARDS of the module.
CARDS ==
    [i \in 1 .. (NUM_SUITS * NUM_RANKS) |->
        Card((i - 1) \div NUM_RANKS, (i - 1) % NUM_RANKS)]

CardSet == {CARDS[i] : i \in DOMAIN CARDS}

\* The cards of a set in the deck's order.
AsSeq(S) == SelectSeq(CARDS, LAMBDA c : c \in S)

ToSet(s) == {s[i] : i \in DOMAIN s}

\* HeartsGame.get_penalty: a heart counts 1, the queen of spades 13.  In the
\* reduced deck the last suit stands for hearts and the top card of the
\* first suit for the queen of spades.
get_penalty(c) ==
    IF c.suit = NUM_SUITS - 1 THEN 1
    ELSE IF c.suit = 0 /\ c.rank = NUM_RANKS - 1 THEN 13
    ELSE 0

RECURSIVE SumPenalty(_)
SumPenalty(cards) ==
    IF cards = <<>> THEN 0
    ELSE get_penalty(Head(cards)) + SumPenalty(Tail(cards))

(***************************************************************************)
(* Results: a value, or the exception raised.                              *)
(***************************************************************************)
Pending == [err |-> "pending"]

Raise(e) == [err |-> e]

(***************************************************************************)
(* Partition filters.                                                      *)
(***************************************************************************)
filter_cards_above(cards, ref_suit, ref_rank) ==
    SelectSeq(cards, LAMBDA c : c.suit = ref_suit /\ c.rank > ref_rank)

\* filter_cards_below keeping the cards of the reference rank too.
filter_cards_not_above(cards, ref_suit, ref_rank) ==
    SelectSeq(cards, LAMBDA c : c.suit # ref_suit \/ c.rank <= ref_rank)

filter_cards_below(cards, ref_suit, ref_rank) ==
    SelectSeq(cards, LAMBDA c : c.suit # ref_suit \/ c.rank < ref_rank)

(***************************************************************************)
(* Combinatorial win probability.                                          *)
(***************************************************************************)
\* The guard of p_gets_trick, missing the case it is there for.
no_incoming_negative(n_incoming) == n_incoming < 0

\* n_incoming == 0: nothing is left to compute.
no_incoming(n_incoming) == n_incoming = 0

\* The share of the higher cards, where that of the lower ones is meant.
p_higher(n_others_higher, n_others_lower) ==
    Rat(n_others_higher, n_others_lower + n_others_higher)

p_lower(n_others_higher, n_others_lower) ==
    Rat(n_others_lower, n_others_lower + n_others_higher)

p_gets_trick(n_others_higher, n_others_lower, n_incoming) ==
    IF no_incoming(n_incoming) THEN Raise("ValueError")
    ELSE IF n_others_lower + n_others_higher = 0 THEN Raise("ZeroDivisionError")
    ELSE LET p == p_lower(n_others_higher, n_others_lower)
         IN  IF RatEq(p, Rat(1, 1)) THEN [err |-> "none", val |-> ALWAYS]
             ELSE IF RatEq(p, Rat(0, 1)) THEN [err |-> "none", val |-> NEVER]
             ELSE [err |-> "none", val |-> RatPow(p, n_incoming)]

(***************************************************************************)
(* Trick outcome estimator.  `calls` lists the arguments of the call of    *)
(* p_gets_trick, when the call is reached.                                 *)
(***************************************************************************)
Returns(p, penalty, calls) ==
    [err |-> "none", p |-> p, penalty |-> penalty, calls |-> calls]

\* The lead suit read off the last card of the table, not the first.
lead_suit_of_last(card, table_cards) ==
    IF Len(table_cards) # 0 THEN table_cards[Len(table_cards)].suit ELSE card.suit

lead_suit(card, table_cards) ==
    IF Len(table_cards) # 0 THEN table_cards[1].suit ELSE card.suit

\* The last-card test, one card late.
is_last_card_of_five(table_cards) == Len(table_cards) = 4

\* len(table_cards) == 3: we are playing the last card.
is_last_card(table_cards) == Len(table_cards) = 3

\* The cards still to come, counting a trick of three.
n_incoming_of_three(table_cards) == 3 - Len(table_cards) - 1

n_incoming(table_cards) == 4 - Len(table_cards) - 1

\* The mean penalty alone, not times the cards to come.
mean_penalty(other_cards_below, incoming) ==
    IF other_cards_below # <<>>
    THEN Rat(SumPenalty(other_cards_below), Len(other_cards_below))
    ELSE Rat(0, 1)

\* np.mean(penalties_below) * n_incoming, or 0 without cards below.
expected_incoming_penalty(other_cards_below, incoming) ==
    IF other_cards_below # <<>>
    THEN Rat(SumPenalty(other_cards_below) * incoming, Len(other_cards_below))
    ELSE Rat(0, 1)

gets_trick(card, table_cards, cards_by_others) ==
    LET table_cards_that_beat_this ==
            filter_cards_above(table_cards, card.suit, card.rank)
        other_cards_above == filter_cards_above(cards_by_others, card.suit, card.rank)
        other_cards_below == filter_cards_below(cards_by_others, card.suit, card.rank)
        penalty == expected_incoming_penalty(other_cards_below, n_incoming(table_cards))
        call == <<Len(other_cards_above), Len(other_cards_below), n_incoming(table_cards)>>
        probability_of_getting == p_gets_trick(call[1], call[2], call[3])
    IN  IF card.suit # lead_suit(card, table_cards) THEN Returns(NEVER, Rat(0, 1), <<>>)
        ELSE IF table_cards_that_beat_this # <<>> THEN Returns(NEVER, Rat(0, 1), <<>>)
        ELSE IF is_last_card(table_cards) THEN Returns(ALWAYS, Rat(0, 1), <<>>)
        ELSE IF other_cards_above = <<>> THEN Returns(ALWAYS, penalty, <<>>)
        ELSE IF Len(cards_by_others) < 4 THEN Returns(NEVER, Rat(0, 1), <<>>)
        ELSE IF probability_of_getting.err # "none"
             THEN [err |-> probability_of_getting.err, calls |-> <<call>>]
        ELSE Returns(probability_of_getting.val, penalty, <<call>>)

(***************************************************************************)
(* Single-round ownership inference.  A row of probs is the vector of one  *)
(* card over the four seats (US, P1, P2, P3).                              *)
(***************************************************************************)
\* The assertion letting cards that are not of the deck pass.
covers_deck(played, table, hand, unseen) ==
    CardSet \subseteq (played \cup table \cup hand \cup unseen)

\* played | table | hand | unseen == set(CARDS)
is_deck(played, table, hand, unseen) ==
    (played \cup table \cup hand \cup unseen) = CardSet

\* The row of a card, taking a played card for one still held.
row_forgetting_played(card, hand, table, played) ==
    IF card \in hand THEN <<Rat(1, 1), Rat(0, 1), Rat(0, 1), Rat(0, 1)>>
    ELSE IF card \in table THEN <<Rat(0, 1), Rat(0, 1), Rat(0, 1), Rat(0, 1)>>
    ELSE <<Rat(0, 1), Rat(1, 3), Rat(1, 3), Rat(1, 3)>>

\* The row of probs of one card.
row(card, hand, table, played) ==
    IF card \in hand THEN <<Rat(1, 1), Rat(0, 1), Rat(0, 1), Rat(0, 1)>>
    ELSE IF card \in table \/ card \in played
    THEN <<Rat(0, 1), Rat(0, 1), Rat(0, 1), Rat(0, 1)>>
    ELSE <<Rat(0, 1), Rat(1, 3), Rat(1, 3), Rat(1, 3)>>

from_trick(hand, trick, played, unseen) ==
    LET table == trick
    IN  IF ~is_deck(played, table, hand, unseen)
        THEN Raise("AssertionError")
        ELSE [err |-> "none",
              probs |-> [c \in DOMAIN CARDS |-> row(CARDS[c], hand, table, played)]]

(***************************************************************************)
(* Decision-context snapshot.  A game is what the snapshot reads of the    *)
(* HeartsGame: hand, table_cards, unknown_cards and the legal actions      *)
(* (indices into hand, from 1 here).                                       *)
(***************************************************************************)
DeepState(game) ==
    [cards_on_hand |-> game.hand,
     cards_on_table |-> game.table_cards,
     unseen_cards |-> game.unknown_cards,
     cards_by_others |->
        SelectSeq(game.unknown_cards, LAMBDA c : c \notin ToSet(game.hand)),
     legal_indices_to_play |-> game.legal_actions,
     legal_cards_to_play |->
        [a \in DOMAIN game.legal_actions |-> game.hand[game.legal_actions[a]]],
     T |-> Len(game.table_cards),
     H |-> Len(game.hand),
     A |-> Len(game.legal_actions)]

calculate_get_avoid_probabilities(self) ==
    LET got ==
            [a \in 1 .. self.A |->
                gets_trick(self.legal_cards_to_play[a], self.cards_on_table,
                           self.cards_by_others)]
        failed == {a \in 1 .. self.A : got[a].err # "none"}
    IN  IF failed # {}
        THEN Raise(got[CHOOSE a \in failed : \A b \in failed : a <= b].err)
        ELSE [err |-> "none",
              p_get_trick |-> [a \in 1 .. self.A |-> got[a].p],
              p_avoid_trick |-> [a \in 1 .. self.A |-> RatSub(Rat(1, 1), got[a].p)],
              inbound_penalty |-> [a \in 1 .. self.A |-> got[a].penalty]]

(***************************************************************************)
(* The arguments a call is made with.                                      *)
(***************************************************************************)
\* The sequences over S of length at most n.
SeqsUpTo(S, n) == UNION {[1 .. k -> S] : k \in 0 .. n}

\* The sequences of distinct elements of S of length at most n.
DistinctSeqs(S, n) ==
    {s \in SeqsUpTo(S, n) : \A i, j \in DOMAIN s : i # j => s[i] # s[j]}

\* The subsets of S of at most n elements.
SubsetsUpTo(S, n) == {T \in SUBSET S : Cardinality(T) <= n}

\* The same, built up one element at a time (for a large S).
RECURSIVE ChoicesUpTo(_, _)
ChoicesUpTo(S, n) ==
    IF n = 0 THEN {{}}
    ELSE LET smaller == ChoicesUpTo(S, n - 1)
         IN  smaller \cup {T \cup {x} : T \in smaller, x \in S}

FilterArgs ==
    [cards : SeqsUpTo(CardSet, MaxLen),
     ref_suit : 0 .. (NUM_SUITS - 1), ref_rank : 0 .. (NUM_RANKS - 1)]

PArgs ==
    [n_others_higher : 0 .. MaxCount, n_others_lower : 0 .. MaxCount,
     n_incoming : 0 .. MaxIncoming]

\* The candidate is a card of our hand: it is not on the table, and not
\* among the cards by others, which DeepState takes off the hand's cards.
GetsTrickArgs(c, t) ==
    {[card |-> c, table_cards |-> t, cards_by_others |-> AsSeq(o)] :
        o \in SubsetsUpTo(CardSet \ {c}, MaxOthers)}

\* A card that is not of the deck.
JOKER == Card(NUM_SUITS, 0)

\* The cards a set of placements <<card, group>> puts in group g.
Placed(seen, g) == {pl[1] : pl \in {q \in seen : q[2] = g}}

\* hand, trick and played hold a few cards of the deck or not of it, a card
\* possibly in several of them; unseen is the rest of the deck, or the rest
\* with one card missing or one card too many.
FromTrickArgs(seen) ==
    LET hand == Placed(seen, "hand")
        trick == Placed(seen, "trick")
        played == Placed(seen, "played")
        rest == CardSet \ (hand \cup trick \cup played)
    IN  {[hand |-> hand, trick |-> trick, played |-> played, unseen |-> u] :
            u \in {rest} \cup {rest \ {x} : x \in rest}
                    \cup {rest \cup {x} : x \in (CardSet \cup {JOKER}) \ rest}}

\* The non-empty ascending index sequences into a hand of n cards.
LegalActions(n) ==
    {s \in SeqsUpTo(1 .. n, n) :
        /\ s # <<>>
        /\ \A i, j \in DOMAIN s : i < j => s[i] < s[j]}

\* A game at a decision: cards on the table, a hand of other cards, the
\* cards of the other players and the legal actions.  unknown_cards are the
\* other players' cards, with or without the cards of the hand among them.
Game(hand, table_cards, unknown, legal_actions) ==
    [hand |-> AsSeq(hand), table_cards |-> table_cards,
     unknown_cards |-> AsSeq(unknown), legal_actions |-> legal_actions]

(***************************************************************************)
(* The calls.                                                              *)
(***************************************************************************)
Init ==
    /\ pc = "start"
    /\ result = Pending
    /\ \/ op = "filter_cards" /\ args \in FilterArgs
       \/ op = "p_gets_trick" /\ args \in PArgs
       \/ /\ op = "gets_trick"
          /\ \E c \in CardSet :
                \E t \in DistinctSeqs(CardSet \ {c}, MaxTable) :
                    args \in GetsTrickArgs(c, t)
       \/ /\ op = "from_trick"
          /\ \E seen \in ChoicesUpTo((CardSet \cup {JOKER}) \X {"hand", "trick", "played"},
                                        MaxSeen) :
                args \in FromTrickArgs(seen)
       \/ /\ op = "calculate_get_avoid_probabilities"
          /\ \E t \in DistinctSeqs(CardSet, MaxTable) :
                \E h \in SubsetsUpTo(CardSet \ ToSet(t), MaxHand) \ {{}} :
                    \E o \in SubsetsUpTo(CardSet \ (ToSet(t) \cup h), MaxOthers) :
                        \E k \in {{}, h} :
                            \E l \in LegalActions(Cardinality(h)) :
                                args = [game |-> Game(h, t, o \cup k, l)]

CallFilterCards ==
    /\ pc = "start" /\ op = "filter_cards"
    /\ result' =
        [err |-> "none",
         above |-> filter_cards_above(args.cards, args.ref_suit, args.ref_rank),
         below |-> filter_cards_below(args.cards, args.ref_suit, args.ref_rank)]
    /\ pc' = "done"
    /\ UNCHANGED <<op, args>>

CallPGetsTrick ==
    /\ pc = "start" /\ op = "p_gets_trick"
    /\ result' = p_gets_trick(args.n_others_higher, args.n_others_lower, args.n_incoming)
    /\ pc' = "done"
    /\ UNCHANGED <<op, args>>

CallGetsTrick ==
    /\ pc = "start" /\ op = "gets_trick"
    /\ result' = gets_trick(args.card, args.table_cards, args.cards_by_others)
    /\ pc' = "done"
    /\ UNCHANGED <<op, args>>

CallFromTrick ==
    /\ pc = "start" /\ op = "from_trick"
    /\ result' = from_trick(args.hand, args.trick, args.played, args.unseen)
    /\ pc' = "done"
    /\ UNCHANGED <<op, args>>

CallCalculate ==
    /\ pc = "start" /\ op = "calculate_get_avoid_probabilities"
    /\ result' = calculate_get_avoid_probabilities(DeepState(args.game))
    /\ pc' = "done"
    /\ UNCHANGED <<op, args>>

Next ==
    \/ CallFilterCards
    \/ CallPGetsTrick
    \/ CallGetsTrick
    \/ CallFromTrick
    \/ CallCalculate

Spec == Init /\ [][Next]_vars

(***************************************************************************)
(* What the properties below read.                                         *)
(***************************************************************************)
Done(o) == pc = "done" /\ op = o

IsProbability(p) == p[2] > 0 /\ 0 <= p[1] /\ p[1] <= p[2]

Count(s, c) == Cardinality({i \in DOMAIN s : s[i] = c})

\* s is t with some elements left out.
RECURSIVE IsSubSeq(_, _)
IsSubSeq(s, t) ==
    IF s = <<>> THEN TRUE
    ELSE IF t = <<>> THEN FALSE
    ELSE IF Head(s) = Head(t) THEN IsSubSeq(Tail(s), Tail(t))
    ELSE IsSubSeq(s, Tail(t))

\* A table card beats the candidate: the candidate's suit and a higher rank.
Beats(t, card) == t.suit = card.suit /\ t.rank > card.rank

NoTableCardBeats(card, table_cards) ==
    \A i \in DOMAIN table_cards : ~Beats(table_cards[i], card)

\* The positions of cards_by_others holding a same-suit higher card, and
\* the remaining ones.
AbovePositions(card, others) == {i \in DOMAIN others : Beats(others[i], card)}

BelowPositions(card, others) == DOMAIN others \ AbovePositions(card, others)

RECURSIVE PenaltyAt(_, _)
PenaltyAt(others, positions) ==
    IF positions = {} THEN 0
    ELSE LET i == CHOOSE j \in positions : TRUE
         IN  get_penalty(others[i]) + PenaltyAt(others, positions \ {i})

\* The four groups of a call of from_trick holding card c.
GroupsOf(c) ==
    {g \in {"hand", "trick", "played", "unseen"} : c \in args[g]}

\* Every card of the deck lies in exactly one group and no group holds
\* another card.
ExactPartition ==
    /\ \A c \in CardSet : Cardinality(GroupsOf(c)) = 1
    /\ (args.hand \cup args.trick \cup args.played \cup args.unseen) \subseteq CardSet

(***************************************************************************)
(* C1.  A candidate that does not follow the suit of the first table card  *)
(* gets (NEVER, 0), whatever the one to three table cards and the cards    *)
(* of the others are.  On an empty table the candidate leads: there is no  *)
(* mismatch, and unless the others hold a higher card of its suit it gets  *)
(* the trick.                                                              *)
(***************************************************************************)
C1_SuitMismatchNever ==
    Done("gets_trick") =>
        /\ (Len(args.table_cards) >= 1
              /\ args.card.suit # args.table_cards[1].suit)
            => (result.err = "none" /\ result.p = NEVER /\ result.penalty = Rat(0, 1))
        /\ (Len(args.table_cards) = 0
              /\ AbovePositions(args.card, args.cards_by_others) = {})
            => (result.err = "none" /\ result.p = ALWAYS)

\* A mismatch against the first card of a table whose last card is of the
\* candidate's suit and lower.
C1_Witness ==
    /\ Done("gets_trick")
    /\ Len(args.table_cards) = 3
    /\ args.card.suit # args.table_cards[1].suit
    /\ args.card.suit = args.table_cards[3].suit
    /\ args.card.rank > args.table_cards[3].rank
    /\ result.p = NEVER

(***************************************************************************)
(* C2, as stated.  With three cards on the table, none of them of the      *)
(* candidate's suit and a higher rank, gets_trick returns (ALWAYS, 0).     *)
(***************************************************************************)
C2_LastCardAlways_Original ==
    (Done("gets_trick")
       /\ Len(args.table_cards) = 3
       /\ NoTableCardBeats(args.card, args.table_cards))
    => (result.err = "none" /\ result.p = ALWAYS /\ result.penalty = Rat(0, 1))

(***************************************************************************)
(* C2, amended.  With three cards on the table, the candidate of the suit  *)
(* of the first of them, and no table card of the candidate's suit and a   *)
(* higher rank, gets_trick returns (ALWAYS, 0).                            *)
(***************************************************************************)
C2_LastCardAlways ==
    (Done("gets_trick")
       /\ Len(args.table_cards) = 3
       /\ args.card.suit = args.table_cards[1].suit
       /\ NoTableCardBeats(args.card, args.table_cards))
    => (result.err = "none" /\ result.p = ALWAYS /\ result.penalty = Rat(0, 1))

\* The last card follows suit, is not beaten, and the others hold a higher one.
C2_Witness ==
    /\ Done("gets_trick")
    /\ Len(args.table_cards) = 3
    /\ args.card.suit = args.table_cards[1].suit
    /\ NoTableCardBeats(args.card, args.table_cards)
    /\ AbovePositions(args.card, args.cards_by_others) # {}
    /\ result.p = ALWAYS

(***************************************************************************)
(* C3.  Every probability lies in [0, 1]: what p_gets_trick returns for    *)
(* h + l > 0 and n >= 1, the first component of what gets_trick returns,   *)
(* and every entry of the win and avoid vectors of the snapshot.           *)
(***************************************************************************)
C3_ProbabilitiesInUnitInterval ==
    /\ (Done("p_gets_trick")
          /\ args.n_others_higher + args.n_others_lower > 0
          /\ args.n_incoming >= 1)
        => (result.err = "none" /\ IsProbability(result.val))
    /\ Done("gets_trick") => (result.err = "none" /\ IsProbability(result.p))
    /\ Done("calculate_get_avoid_probabilities") =>
          /\ result.err = "none"
          /\ \A a \in DOMAIN result.p_get_trick :
                /\ IsProbability(result.p_get_trick[a])
                /\ IsProbability(result.p_avoid_trick[a])
                /\ RatEq(RatAdd(result.p_get_trick[a], result.p_avoid_trick[a]), Rat(1, 1))

\* A snapshot with a win probability strictly between 0 and 1.
C3_Witness ==
    /\ Done("calculate_get_avoid_probabilities")
    /\ result.err = "none"
    /\ \E a \in DOMAIN result.p_get_trick :
          /\ 0 < result.p_get_trick[a][1]
          /\ result.p_get_trick[a][1] < result.p_get_trick[a][2]

(***************************************************************************)
(* C4, as stated.  The two filters partition their input: no card is in    *)
(* both results, the results together hold every card as often as the      *)
(* input does, and each result keeps the input's order.                    *)
(***************************************************************************)
C4_FiltersPartition_Original ==
    Done("filter_cards") =>
        /\ ToSet(result.above) \cap ToSet(result.below) = {}
        /\ \A c \in CardSet :
              Count(result.above, c) + Count(result.below, c) = Count(args.cards, c)
        /\ IsSubSeq(result.above, args.cards)
        /\ IsSubSeq(result.below, args.cards)

(***************************************************************************)
(* C4, amended.  No card is in both results, each result keeps the         *)
(* input's order, and the results together hold every card other than the  *)
(* reference card (ref_suit, ref_rank) as often as the input does; the     *)
(* reference card itself is in neither result.                             *)
(***************************************************************************)
C4_FiltersPartition ==
    Done("filter_cards") =>
        /\ ToSet(result.above) \cap ToSet(result.below) = {}
        /\ \A c \in CardSet :
              Count(result.above, c) + Count(result.below, c) =
                  IF c = Card(args.ref_suit, args.ref_rank) THEN 0
                  ELSE Count(args.cards, c)
        /\ IsSubSeq(result.above, args.cards)
        /\ IsSubSeq(result.below, args.cards)

\* The reference card between a higher and a lower card of its suit.
C4_Witness ==
    /\ Done("filter_cards")
    /\ Len(args.cards) = 3
    /\ args.cards[2] = Card(args.ref_suit, args.ref_rank)
    /\ Len(result.above) = 1
    /\ Len(result.below) = 1

(***************************************************************************)
(* C5.  For n >= 1, p_gets_trick(h, l, n) is (l / (l + h)) ** n: NEVER     *)
(* for l = 0 < h, ALWAYS for h = 0 < l, and 9/16 for h = 1, l = 3, n = 2.  *)
(***************************************************************************)
C5_PowerOfLowerShare ==
    (Done("p_gets_trick")
       /\ args.n_incoming >= 1
       /\ args.n_others_higher + args.n_others_lower > 0)
    => LET h == args.n_others_higher
           l == args.n_others_lower
           n == args.n_incoming
       IN  /\ result.err = "none"
           /\ result.val[1] * IntPow(l + h, n) = IntPow(l, n) * result.val[2]
           /\ (l = 0 /\ h > 0) => result.val = NEVER
           /\ (h = 0 /\ l > 0) => result.val = ALWAYS
           /\ (h = 1 /\ l = 3 /\ n = 2) => RatEq(result.val, Rat(9, 16))

\* The call of the example.
C5_Witness ==
    /\ Done("p_gets_trick")
    /\ args.n_others_higher = 1 /\ args.n_others_lower = 3 /\ args.n_incoming = 2
    /\ result.err = "none"
    /\ RatEq(result.val, Rat(9, 16))

(***************************************************************************)
(* C6, as stated.  p_gets_trick raises a value error when n = 0, and       *)
(* fails in no other case: for n >= 1 it returns a probability.            *)
(***************************************************************************)
C6_OnlyFailure_Original ==
    Done("p_gets_trick") =>
        /\ args.n_incoming = 0 => result.err = "ValueError"
        /\ args.n_incoming >= 1 => (result.err = "none" /\ IsProbability(result.val))

(***************************************************************************)
(* C6, amended.  p_gets_trick raises a value error when n = 0, for every   *)
(* h and l; for n >= 1 it returns a probability when h + l > 0 and fails   *)
(* with a division by zero when h = l = 0.                                 *)
(***************************************************************************)
C6_Failures ==
    Done("p_gets_trick") =>
        /\ args.n_incoming = 0 => result.err = "ValueError"
        /\ (args.n_incoming >= 1 /\ args.n_others_higher + args.n_others_lower > 0)
            => (result.err = "none" /\ IsProbability(result.val))
        /\ (args.n_incoming >= 1 /\ args.n_others_higher + args.n_others_lower = 0)
            => result.err = "ZeroDivisionError"

\* The value error of a call without incoming cards and without cards.
C6_Witness ==
    /\ Done("p_gets_trick")
    /\ args.n_incoming = 0
    /\ args.n_others_higher + args.n_others_lower = 0
    /\ result.err = "ValueError"

C8_Rows ==
    (Done("from_trick") /\ ExactPartition) =>
        /\ result.err = "none"
        /\ DOMAIN result.probs = DOMAIN CARDS
        /\ \A c \in DOMAIN CARDS :
              LET r == result.probs[c]
              IN  /\ Len(r) = 4
                  /\ CARDS[c] \in args.hand =>
                        /\ RatEq(r[1], Rat(1, 1))
                        /\ \A seat \in 2 .. 4 : RatEq(r[seat], Rat(0, 1))
                  /\ CARDS[c] \in (args.trick \cup args.played) =>
                        \A seat \in 1 .. 4 : RatEq(r[seat], Rat(0, 1))
                  /\ CARDS[c] \notin (args.hand \cup args.trick \cup args.played) =>
                        /\ RatEq(r[1], Rat(0, 1))
                        /\ \A seat \in 2 .. 4 : RatEq(r[seat], Rat(1, 3))
                  /\ RatLe(RatAdd(RatAdd(r[1], r[2]), RatAdd(r[3], r[4])), Rat(1, 1))

\* A partition with a card in each of hand, trick and played.
C8_Witness ==
    /\ Done("from_trick")
    /\ ExactPartition
    /\ args.hand # {} /\ args.trick # {} /\ args.played # {} /\ args.unseen # {}
    /\ result.err = "none"

(***************************************************************************)
(* C9.  The opponent-threat case: the candidate follows the lead suit, no  *)
(* table card beats it and the table holds at most two cards.  With above  *)
(* the same-suit higher cards of the others, below the remaining ones,     *)
(* n = 3 - len(table) and P the mean penalty of below times n (0 without   *)
(* cards below): (ALWAYS, P) when above is empty, else (NEVER, 0) when     *)
(* the others hold fewer than 4 cards, else (p_gets_trick(|above|,         *)
(* |below|, n), P).                                                        *)
(***************************************************************************)
C9_ThreatCase ==
    (Done("gets_trick")
       /\ Len(args.table_cards) <= 2
       /\ (Len(args.table_cards) = 0 \/ args.card.suit = args.table_cards[1].suit)
       /\ NoTableCardBeats(args.card, args.table_cards))
    => LET others == args.cards_by_others
           above == AbovePositions(args.card, others)
           below == BelowPositions(args.card, others)
           n == 3 - Len(args.table_cards)
           P == IF below = {} THEN Rat(0, 1)
                ELSE Rat(PenaltyAt(others, below) * n, Cardinality(below))
       IN  /\ result.err = "none"
           /\ IF above = {}
              THEN result.p = ALWAYS /\ RatEq(result.penalty, P)
              ELSE IF Len(others) < 4
              THEN result.p = NEVER /\ result.penalty = Rat(0, 1)
              ELSE /\ RatEq(result.p,
                            p_gets_trick(Cardinality(above), Cardinality(below), n).val)
                   /\ RatEq(result.penalty, P)

\* The uncertain case with a penalty to expect.
C9_Witness ==
    /\ Done("gets_trick")
    /\ Len(args.table_cards) = 1
    /\ args.card.suit = args.table_cards[1].suit
    /\ NoTableCardBeats(args.card, args.table_cards)
    /\ AbovePositions(args.card, args.cards_by_others) # {}
    /\ Len(args.cards_by_others) >= 4
    /\ result.err = "none"
    /\ 0 < result.p[1] /\ result.p[1] < result.p[2]
    /\ result.penalty[1] > 0

(***************************************************************************)
(* C10.  gets_trick returns without failing: where it calls p_gets_trick,  *)
(* n_incoming is at least 1 and the above and below cards are at least     *)
(* one, so neither the value error nor a division by zero occurs.          *)
(***************************************************************************)
C10_NoFailure ==
    Done("gets_trick") =>
        /\ result.err = "none"
        /\ \A i \in DOMAIN result.calls :
              /\ result.calls[i][3] >= 1
              /\ result.calls[i][1] + result.calls[i][2] >= 1

\* The call is reached with two cards on the table: one card to come.
C10_Witness ==
    /\ Done("gets_trick")
    /\ Len(args.table_cards) = 2
    /\ result.calls # <<>>
    /\ result.calls[1][3] = 1

====
